---- MODULE Spec2Model ----
(***************************************************************************)
(* Calendar example application (src/example/index.tsx) over the era       *)
(* interval calculus.  An instant is an integer count of half-hour ticks   *)
(* since 1970-01-01T00:00Z; the ambient local zone follows the US rule of  *)
(* America/New_York (UTC-5, UTC-4 between the second Sunday of March and   *)
(* the first Sunday of November).  An Interval is [start |-> t, end |-> t]. *)
(***************************************************************************)
EXTENDS Integers, Sequences, FiniteSets, TLC

VARIABLES view, datetime, interval, now, weekStart

vars == <<view, datetime, interval, now, weekStart>>

(* ------------------------------------------------------------------ *)
(* Bounds                                                              *)
(* ------------------------------------------------------------------ *)

\* number of calendar months navigation may visit
MonthSpan == 14

\* number of clock ticks the session may last
MaxTicks == 1

(* ------------------------------------------------------------------ *)
(* Program constants                                                   *)
(* ------------------------------------------------------------------ *)

\* Duration.fromObject({ minutes: 30 }): one tick of the model
SegmentMinutes == 30

\* segments.length !== 48
NominalSegments == 48

\* day.start.minus({ days: 2 })
FallbackDays == 2

\* paddedMonthOf(month.start, { daysPerWeek: 7, weeksPerMonth: 6 })
daysPerWeek == 7

weeksPerMonth == 6

TicksPerHour == 60 \div SegmentMinutes

TicksPerDay == 24 * TicksPerHour

(* ------------------------------------------------------------------ *)
(* luxon: Gregorian calendar                                           *)
(* ------------------------------------------------------------------ *)

Min(a, b) == IF a < b THEN a ELSE b

isLeapYear(y) == (y % 4 = 0) /\ ((y % 100 # 0) \/ (y % 400 = 0))

daysInMonth(y, m) ==
  IF m = 2 THEN (IF isLeapYear(y) THEN 29 ELSE 28)
  ELSE IF m \in {4, 6, 9, 11} THEN 30 ELSE 31

\* day number of day d of month mp (counted from March = 0) of the year yy
\* that starts in March
daysFromMarchYear(yy, mp, d) ==
  (yy \div 400) * 146097 + (yy % 400) * 365 + ((yy % 400) \div 4)
    - ((yy % 400) \div 100) + ((153 * mp + 2) \div 5) + d - 1 - 719468

\* day number (days since 1970-01-01) of the civil date y-m-d
objToDay(y, m, d) ==
  IF m <= 2 THEN daysFromMarchYear(y - 1, m + 9, d)
  ELSE daysFromMarchYear(y, m - 3, d)

civilOfMonth(y, mp, d) ==
  [year  |-> IF mp < 10 THEN y ELSE y + 1,
   month |-> IF mp < 10 THEN mp + 3 ELSE mp - 9,
   day   |-> d]

civilOfDayOfYear(y, doy, mp) ==
  civilOfMonth(y, mp, doy - ((153 * mp + 2) \div 5) + 1)

civilOfYear(y, doy) == civilOfDayOfYear(y, doy, (5 * doy + 2) \div 153)

civilOfYearOfEra(y400, yoe, doe) ==
  civilOfYear(y400 + yoe, doe - (365 * yoe + (yoe \div 4) - (yoe \div 100)))

civilOfEra(era, doe) ==
  civilOfYearOfEra(era * 400,
    (doe - (doe \div 1460) + (doe \div 36524) - (doe \div 146096)) \div 365, doe)

civilOfShifted(z) == civilOfEra(z \div 146097, z % 146097)

\* civil date [year, month, day] of a day number
dayToObj(n) == civilOfShifted(n + 719468)

\* ISO weekday of a day number: 1 = Monday .. 7 = Sunday
dayOfWeek(n) == ((n + 3) % 7) + 1

(* ------------------------------------------------------------------ *)
(* luxon: the local zone                                               *)
(* ------------------------------------------------------------------ *)

stdOffset == -(5 * TicksPerHour)

dstOffset == -(4 * TicksPerHour)

\* daylight time is in force at tick tod of the UTC day with civil date c
\* and weekday wd: from 07:00 UTC on the second Sunday of March to 06:00 UTC
\* on the first Sunday of November; sob is the day of the month of the
\* Sunday on or before c
isDSTFrom(c, wd, tod, sob) ==
  CASE c.month \in 4 .. 10 -> TRUE
    [] c.month = 3 ->
         sob >= 8 /\ (wd # 7 \/ c.day > 14 \/ tod >= 7 * TicksPerHour)
    [] c.month = 11 ->
         sob < 1 \/ (wd = 7 /\ c.day <= 7 /\ tod < 6 * TicksPerHour)
    [] OTHER -> FALSE

isDST(c, wd, tod) == isDSTFrom(c, wd, tod, c.day - (wd % 7))

\* zone.offset(ts): the local offset, in ticks, in force at instant ts
offset(ts) ==
  IF isDST(dayToObj(ts \div TicksPerDay), dayOfWeek(ts \div TicksPerDay),
           ts % TicksPerDay)
  THEN dstOffset ELSE stdOffset

fixOffsetThird(lts, o2, o3) ==
  IF o2 = o3 THEN lts - o2 ELSE lts - Min(o2, o3)

fixOffsetSecond(lts, o, o2) ==
  IF o = o2 THEN lts - o ELSE fixOffsetThird(lts, o2, offset(lts - o2))

\* fixOffset(localTS, o, tz): the instant whose local reading is lts,
\* guessing with the offset o first; a reading inside a spring-forward hole
\* moves forward, an ambiguous reading keeps the guessed offset
fixOffset(lts, o) == fixOffsetSecond(lts, o, offset(lts - o))

localAt(ts, o) ==
  [day |-> (ts + o) \div TicksPerDay, tod |-> (ts + o) % TicksPerDay, o |-> o]

\* local reading of an instant: local day number, tick of the day, offset
local(ts) == localAt(ts, offset(ts))

localDay(ts) == local(ts).day

localTod(ts) == local(ts).tod

\* calendar fields of a DateTime
year(ts) == dayToObj(local(ts).day).year

month(ts) == dayToObj(local(ts).day).month

day(ts) == dayToObj(local(ts).day).day

weekday(ts) == dayOfWeek(local(ts).day)

\* DateTime.set: the instant with the given local date and time of day
objToTS(y, m, d, tod, o) ==
  fixOffset(objToDay(y, m, d) * TicksPerDay + tod, o)

(* ------------------------------------------------------------------ *)
(* luxon: DateTime.plus / DateTime.minus / DateTime.startOf            *)
(* ------------------------------------------------------------------ *)

\* the units luxon's Duration accepts, plural and singular
normalizeUnit(u) ==
  CASE u \in {"year", "years"} -> "years"
    [] u \in {"month", "months"} -> "months"
    [] u \in {"week", "weeks"} -> "weeks"
    [] u \in {"day", "days"} -> "days"
    [] u \in {"hour", "hours"} -> "hours"
    [] OTHER -> "invalid"

\* months and days that n units nu shift the calendar fields by
monthsOf(nu, n) == IF nu = "years" THEN 12 * n ELSE IF nu = "months" THEN n ELSE 0

daysOf(nu, n) == IF nu = "weeks" THEN 7 * n ELSE IF nu = "days" THEN n ELSE 0

\* the day of the month is clamped to the length of the target month
plusInMonth(y, m, d, dd, tod, o) ==
  fixOffset((objToDay(y, m, Min(d, daysInMonth(y, m))) + dd) * TicksPerDay + tod, o)

plusMonths(mi, d, dd, tod, o) ==
  plusInMonth(mi \div 12, (mi % 12) + 1, d, dd, tod, o)

plusCivil(c, l, dm, dd) ==
  plusMonths(c.year * 12 + (c.month - 1) + dm, c.day, dd, l.tod, l.o)

plusLocal(l, nu, n) == plusCivil(dayToObj(l.day), l, monthsOf(nu, n), daysOf(nu, n))

\* adjustTime: shift the calendar fields, keep the local time of day; hours
\* are added as elapsed time
plus(ts, u, n) ==
  IF normalizeUnit(u) = "hours" THEN ts + n * TicksPerHour
  ELSE plusLocal(local(ts), normalizeUnit(u), n)

minus(ts, u, n) == plus(ts, u, -n)

startOfCivil(c, o, u) ==
  objToTS(c.year, IF u = "year" THEN 1 ELSE c.month,
          IF u = "day" THEN c.day ELSE 1, 0, o)

startOfLocal(ts, l, u) ==
  IF u = "hour" THEN ts - (l.tod % TicksPerHour)
  ELSE startOfCivil(dayToObj(l.day), l.o, u)

\* DateTime.startOf for the units whose start does not depend on a week
\* convention
startOf(ts, u) == startOfLocal(ts, local(ts), u)

\* Interval.contains: start <= x < end, compared as instants
contains(i, x) == i.start <= x /\ x < i.end

\* Interval.splitBy(Duration.fromObject({ minutes: 30 * n })): steps of a
\* fixed elapsed duration of n ticks from the start, the last one cut at
\* the end
RECURSIVE splitByFrom(_, _, _)
splitByFrom(s, e, n) ==
  IF s >= e THEN <<>>
  ELSE <<[start |-> s, end |-> Min(s + n, e)]>> \o splitByFrom(Min(s + n, e), e, n)

splitBy(i, n) == IF n <= 0 THEN <<>> ELSE splitByFrom(i.start, i.end, n)

(* ------------------------------------------------------------------ *)
(* era: the interval calculus imported from '../.'                     *)
(* A call returns [err |-> "none", val |-> v] or [err |-> kind, ...].   *)
(* ------------------------------------------------------------------ *)

Granularity == {"hour", "day", "week", "month", "year"}

Views == {"day", "week", "month", "year"}

NoInterval == [start |-> 0, end |-> 0]

Ok(v) == [err |-> "none", val |-> v]

FailInterval(kind) == [err |-> kind, val |-> NoInterval]

FailIntervals(kind) == [err |-> kind, val |-> <<>>]

startOfWeekLocal(l) ==
  fixOffset((l.day - ((dayOfWeek(l.day) - weekStart + 7) % 7)) * TicksPerDay, l.o)

\* start of the week of ts under the week-start convention in force
startOfWeek(ts) == startOfWeekLocal(local(ts))

\* the window of one unit g that starts at s
windowFrom(s, g) == Ok([start |-> s, end |-> plus(s, g, 1)])

\* viewOfInterval(anchor, granularity)
viewOfInterval(x, g) ==
  IF g \notin Granularity THEN FailInterval("UnsupportedGranularity")
  ELSE windowFrom(IF g = "week" THEN startOfWeek(x) ELSE startOf(x, g), g)

dayOf(x) == viewOfInterval(x, "day")

weekOf(x) == viewOfInterval(x, "week")

\* today() = viewOfInterval(now(), 'day')
today == dayOf(now)

\* the unit names splitByUnit recognises: the granularities and, as the
\* callers at CalendarMiniMonth and CalendarYear rely on, their plurals
unitOf(u) ==
  CASE u \in {"hour", "hours"} -> "hour"
    [] u \in {"day", "days"} -> "day"
    [] u \in {"week", "weeks"} -> "week"
    [] u \in {"month", "months"} -> "month"
    [] u \in {"year", "years"} -> "year"
    [] OTHER -> "unsupported"

\* the walk of splitByUnit: one calendar unit at a time from s to next,
\* ending exactly at e; <<NoInterval>> is returned when the walk overshoots
RECURSIVE walk(_, _, _, _)
walk(s, next, e, u) ==
  IF s = e THEN <<>>
  ELSE IF next > e THEN <<NoInterval>>
  ELSE <<[start |-> s, end |-> next]>> \o walk(next, plus(next, u, 1), e, u)

walked(w) ==
  IF Len(w) > 0 /\ w[Len(w)] = NoInterval
  THEN FailIntervals("MisalignedInterval")
  ELSE Ok(w)

\* splitByUnit(interval, unit)
splitByUnit(i, u) ==
  IF unitOf(u) = "unsupported" THEN FailIntervals("UnsupportedGranularity")
  ELSE IF i.start > i.end THEN FailIntervals("InvalidInterval")
  ELSE walked(walk(i.start, plus(i.start, unitOf(u), 1), i.end, unitOf(u)))

paddedFrom(s, n) == [start |-> s, end |-> plus(s, "day", n)]

\* paddedMonthOf(anchor, { daysPerWeek, weeksPerMonth })
paddedMonthOf(x, dpw, wpm) == paddedFrom(startOfWeek(startOf(x, "month")), wpm * dpw)

\* viewOfDays(anchor, granularity)
viewOfDays(x, g) ==
  CASE g = "day"   -> Ok(<<dayOf(x).val>>)
    [] g = "week"  -> splitByUnit(weekOf(x).val, "day")
    [] g = "month" -> splitByUnit(paddedMonthOf(x, daysPerWeek, weeksPerMonth), "day")
    [] OTHER -> FailIntervals("UnsupportedGranularity")

(* ------------------------------------------------------------------ *)
(* The clock readings and datetimes the model explores                  *)
(* ------------------------------------------------------------------ *)

\* local wall-clock reading y-m-d at tick tod of the day
at(y, m, d, tod) == objToTS(y, m, d, tod, stdOffset)

\* the reading of DateTime.local() at which the application starts:
\* Sunday 14 March 2021 23:30, the day the clocks went forward
StartReading == at(2021, 3, 14, 47)

ClockReadings == StartReading .. (StartReading + MaxTicks)

\* navigation stays within MonthSpan months from 1 February 2020
RangeStart == at(2020, 2, 1, 0)

RangeEnd == plus(RangeStart, "months", MonthSpan)

InRange(t) == RangeStart <= t /\ t < RangeEnd

\* the week may start on Monday (1) or on Sunday (7)
WeekStarts == {1, 7}

\* payloads of 'set.view' (type View)
ViewPayloads == Views

\* payloads of 'set.datetime' other than those of CalendarNav: the leap
\* day, the last day of January 2021 and the day the clocks went back in
\* 2020
DatetimePayloads ==
  { at(2020, 2, 29, 0), at(2021, 1, 31, 47), at(2020, 11, 1, 0) }

(* ------------------------------------------------------------------ *)
(* The reducer and its initial state                                    *)
(* ------------------------------------------------------------------ *)

state == [view |-> view, datetime |-> datetime, interval |-> interval]

\* the state the reducer returns for the new view v, datetime t and the
\* window r computed for them; an error of viewOfInterval is raised
reduced(st, v, t, r) ==
  IF r.err # "none"
  THEN [view |-> st.view, datetime |-> st.datetime,
        interval |-> st.interval, err |-> r.err]
  ELSE [view |-> v, datetime |-> t, interval |-> r.val, err |-> "none"]

\* reducer(state, action); err is the error raised out of the reducer
reducer(st, action) ==
  CASE action.type = "set.view" ->
         reduced(st, action.payload, st.datetime,
                 viewOfInterval(st.datetime, action.payload))
    [] action.type = "set.datetime" ->
         reduced(st, st.view, action.payload,
                 viewOfInterval(action.payload, st.view))
    [] OTHER ->
         [view |-> st.view, datetime |-> st.datetime,
          interval |-> st.interval, err |-> "none"]

\* initialState: DateTime.local() is read once for datetime and once more
\* for interval; the second reading is the same or a later one
Init ==
  \E ws \in WeekStarts, n1 \in {StartReading} :
    \E n2 \in {t \in ClockReadings : t >= n1} :
      /\ weekStart = ws
      /\ view = "week"
      /\ datetime = n1
      /\ now = n2
      /\ interval = weekOf(n2).val

committed(r) ==
  /\ r.err = "none"
  /\ view' = r.view
  /\ datetime' = r.datetime
  /\ interval' = r.interval

\* React.useReducer dispatch: the state becomes what the reducer returns,
\* unless it raises an error
dispatch(action) ==
  /\ committed(reducer(state, action))
  /\ UNCHANGED <<now, weekStart>>

(* ------------------------------------------------------------------ *)
(* Components: what each one computes before rendering                  *)
(* ------------------------------------------------------------------ *)

\* CalendarDay recomputing the interval from the end of the day it is given
CalendarDayIntervalFromEnd(d) == viewOfInterval(d.end, "day").val

\* CalendarDay: the interval whose half-hour segments are computed first
CalendarDayInterval(d) == viewOfInterval(d.start, "day").val

\* CalendarDay: segments
CalendarDaySegments(d) ==
  LET segments == splitBy(CalendarDayInterval(d), 1)
  IN  IF Len(segments) # NominalSegments
      THEN splitBy(viewOfInterval(minus(d.start, "days", FallbackDays), "day").val, 1)
      ELSE segments

\* CalendarTimeZones: segments, for a clock reading t of DateTime.local()
CalendarTimeZonesSegments(t) ==
  LET segments == splitByUnit(dayOf(t).val, "hour")
  IN  IF Len(segments.val) # NominalSegments
      THEN splitByUnit(dayOf(minus(t, "days", FallbackDays)).val, "hour")
      ELSE segments

\* CalendarDays: days
CalendarDaysDays == viewOfDays(datetime, view)

\* CalendarMonth: days
CalendarMonthDays == viewOfDays(datetime, "month")

\* CalendarMonth, CalendarMiniMonth: gridColumn of cell i (from 0) of days;
\* -1 stands for undefined
gridColumn(days, i) ==
  IF i = 0
  THEN (IF weekday(days[1].start) = 7 THEN 0 ELSE weekday(days[1].start) + 1)
  ELSE -1

\* CalendarMiniMonth padding to one week less
CalendarMiniMonthDaysFiveWeeks(mth) ==
  splitByUnit(paddedMonthOf(mth.start, daysPerWeek, weeksPerMonth - 1), "days")

\* CalendarMiniMonth: days
CalendarMiniMonthDays(mth) ==
  splitByUnit(paddedMonthOf(mth.start, daysPerWeek, weeksPerMonth), "days")

\* CalendarYear splitting the month window instead of the year window
CalendarYearMonthsOfMonthWindow ==
  splitByUnit(viewOfInterval(datetime, "month").val, "months")

\* CalendarYear: months
CalendarYearMonths ==
  splitByUnit(viewOfInterval(datetime, "year").val, "months")

\* CalendarApp: the month given to the sidebar's CalendarMiniMonth,
\* from startOf('month') to the last tick before the next month
monthFrom(s) == [start |-> s, end |-> plus(s, "month", 1) - 1]

SidebarMonth == monthFrom(startOf(datetime, "month"))

Range(seq) == {seq[i] : i \in 1 .. Len(seq)}

\* the months whose CalendarMiniMonth is on screen
MiniMonthsShown ==
  IF view \in {"day", "week"} THEN {SidebarMonth}
  ELSE IF view = "year" THEN Range(CalendarYearMonths.val)
  ELSE {}

(* ------------------------------------------------------------------ *)
(* Operations                                                           *)
(* ------------------------------------------------------------------ *)

\* CalendarViewSelect / set.view
SetView(payload) == dispatch([type |-> "set.view", payload |-> payload])

\* setDatetime(t), for the datetimes t the model explores
navigate(t) ==
  /\ InRange(t)
  /\ dispatch([type |-> "set.datetime", payload |-> t])

\* CalendarNav.prev
Prev == navigate(minus(datetime, view, 1))

\* CalendarNav.next
Next_ == navigate(plus(datetime, view, 1))

\* CalendarNav.goToday
GoToday ==
  dispatch([type |-> "set.datetime", payload |-> startOf(today.val.start, "day")])

\* set.datetime, as the day cells of CalendarDay, CalendarMonth and
\* CalendarMiniMonth dispatch it with the start of the day clicked
SetDatetime(payload) == dispatch([type |-> "set.datetime", payload |-> payload])

\* an action of a type the reducer does not know
OtherAction == dispatch([type |-> "other", payload |-> 0])

\* the system clock advances
Tick ==
  /\ now + 1 \in ClockReadings
  /\ now' = now + 1
  /\ UNCHANGED <<view, datetime, interval, weekStart>>

Next ==
  \/ \E payload \in ViewPayloads : SetView(payload)
  \/ Prev
  \/ Next_
  \/ GoToday
  \/ \E payload \in DatetimePayloads : SetDatetime(payload)
  \/ OtherAction
  \/ Tick

Spec == Init /\ [][Next]_vars

TypeOK ==
  /\ view \in Views
  /\ interval.start < interval.end
  /\ now \in ClockReadings
  /\ weekStart \in WeekStarts


(* ------------------------------------------------------------------ *)
(* Grid placement of the month cells                                    *)
(* ------------------------------------------------------------------ *)

GridColumns == daysPerWeek

\* column in which the browser places the first cell: style gridColumn c
\* when c names a column, the first free column otherwise
firstColumn(c) == IF c \in 1 .. GridColumns THEN c ELSE 1

\* column (from 1) and row (from 1) of cell i (from 0), the cells after the
\* first one flowing along the rows
columnOfCell(c, i) == ((firstColumn(c) - 1 + i) % GridColumns) + 1

rowOfCell(c, i) == ((firstColumn(c) - 1 + i) \div GridColumns) + 1

\* column of a weekday in a grid whose first column is the week start
columnOfWeekday(wd) == ((wd - weekStart + 7) % 7) + 1

\* the grids on screen: the days of CalendarMonth and of each
\* CalendarMiniMonth
GridsShown ==
  IF view = "month" THEN {CalendarMonthDays.val}
  ELSE {CalendarMiniMonthDays(mth).val : mth \in MiniMonthsShown}

(* ------------------------------------------------------------------ *)
(* Properties                                                           *)
(* ------------------------------------------------------------------ *)

\* elapsed ticks of the local day of t
dayLength(t) == dayOf(t).val.end - dayOf(t).val.start

isTransitionDay(t) == dayLength(t) # TicksPerDay

\* the days CalendarDays hands to CalendarDay
DaysRendered ==
  IF view \in {"day", "week"} THEN Range(CalendarDaysDays.val) ELSE {}

\* C1: every day the day column renders shows exactly the half-hour
\* segments of that day, splitBy(dayOf(d), 30 minutes): 48, or 46 / 50 on
\* a day the clocks shift; no other date's segments are shown.
C1_SegmentsOfActualDay ==
  \A d \in DaysRendered :
    /\ CalendarDaySegments(d) = splitBy(dayOf(d.start).val, 1)
    /\ Len(CalendarDaySegments(d)) = dayLength(d.start)

\* C2: the reducer keeps the window consistent with view and anchor: in
\* the initial state and after any sequence of actions, interval equals
\* viewOfInterval(datetime, view); an action of another type changes
\* nothing.
C2_WindowConsistent ==
  /\ interval = viewOfInterval(datetime, view).val
  /\ LET r == reducer(state, [type |-> "other", payload |-> 0])
     IN  r.view = view /\ r.datetime = datetime /\ r.interval = interval

\* C3: viewOfInterval(x, g) contains x for each of day, week, month and
\* year, and so state.interval contains state.datetime in every state.
C3_WindowContainsAnchor ==
  /\ \A g \in Views : contains(viewOfInterval(datetime, g).val, datetime)
  /\ contains(interval, datetime)

\* C4: viewOfInterval is a fixpoint on its own start, for each of day,
\* week, month and year; and the day interval CalendarDay recomputes from
\* d.start equals d for every d that viewOfDays produces.
C4_Fixpoint ==
  /\ \A g \in Views :
       LET v == viewOfInterval(datetime, g)
       IN  /\ v.err = "none"
           /\ viewOfInterval(v.val.start, g) = v
  /\ \A g \in {"day", "week", "month"} :
       \A d \in Range(viewOfDays(datetime, g).val) : CalendarDayInterval(d) = d

C4_Witness ==
  /\ view = "week"
  /\ datetime # interval.start
  /\ \E d \in DaysRendered : isTransitionDay(d.start) /\ CalendarDayInterval(d) = d

\* r partitions i into steps of one calendar unit u
Partitions(i, u, r) ==
  /\ r.err = "none"
  /\ Len(r.val) > 0
  /\ r.val[1].start = i.start
  /\ r.val[Len(r.val)].end = i.end
  /\ \A k \in 1 .. (Len(r.val) - 1) : r.val[k].end = r.val[k + 1].start
  /\ \A k \in 1 .. Len(r.val) :
       /\ r.val[k].start < r.val[k].end
       /\ r.val[k].end = plus(r.val[k].start, u, 1)

\* the units a window of granularity g is a whole number of
UnitsWithin(g) ==
  CASE g = "day" -> {"hour"}
    [] g = "week" -> {"day"}
    [] g = "month" -> {"day"}
    [] g = "year" -> {"month"}

UnitsPassed == {"hour", "days", "months"}

fallbackTaken(t) == Len(splitByUnit(dayOf(t).val, "hour").val) # NominalSegments

\* C8: CalendarTimeZones recomputes the hour segments from two days
\* earlier only on a day the clocks shift; on any other day it shows the
\* 24 hour segments of the current day.
C8_FallbackOnlyOnTransitionDay ==
  /\ fallbackTaken(now) => isTransitionDay(now)
  /\ ~isTransitionDay(now) =>
       /\ CalendarTimeZonesSegments(now) = splitByUnit(dayOf(now).val, "hour")
       /\ Len(CalendarTimeZonesSegments(now).val) = 24

\* C9: the gridColumn of the first of the 42 cells is a column in 1..7,
\* every cell lands in the column of its weekday and the 42 cells fill
\* exactly 6 rows.
C9_GridAligned ==
  \A days \in GridsShown :
    LET c == gridColumn(days, 0)
    IN  /\ Len(days) = 42
        /\ c \in 1 .. GridColumns
        /\ \A i \in 0 .. (Len(days) - 1) :
             /\ columnOfCell(c, i) = columnOfWeekday(weekday(days[i + 1].start))
             /\ rowOfCell(c, i) <= weeksPerMonth

\* the state after CalendarNav.next and after CalendarNav.prev
afterNext == reducer(state, [type |-> "set.datetime", payload |-> plus(datetime, view, 1)])

afterPrev == reducer(state, [type |-> "set.datetime", payload |-> minus(datetime, view, 1)])

\* C10: next moves the window to the one that starts where the current
\* window ends and prev to the one that ends where it starts, in every
\* reachable state.
C10_NavAdjacent ==
  /\ afterNext.interval.start = interval.end
  /\ afterPrev.interval.end = interval.start

\* the same, in the states whose window is the one of the anchor
C10_NavAdjacentWhenConsistent ==
  interval = viewOfInterval(datetime, view).val => C10_NavAdjacent

====
